---- MODULE Spec2Model ----
(***************************************************************************)
(* StellarBridge milestone escrow contract (Soroban).                      *)
(*                                                                         *)
(* Two source variants of the contract are modelled:                       *)
(*   "contracts" : contracts/stellarbridge-contract/src/lib.rs             *)
(*                 (budget check in create_project, trigger_refund)        *)
(*   "root"      : src/lib.rs (no budget check, no trigger_refund)         *)
(*                                                                         *)
(* Every contract entry point is one action.  A handler is an operator     *)
(* from the host state before the call to a result: Ok with the state      *)
(* after the call and the token transfers it made, or Panic, on which the  *)
(* Soroban host discards every write and transfer of the invocation.       *)
(***************************************************************************)
EXTENDS Integers, Sequences, FiniteSets, TLC

\* ------------------------------------------------------------------ bounds
MaxProjects == 1
MaxMilestones == 2
MaxAmount == 2
MaxTime == 1
MaxInvestments == 2
InitBalance == 2

\* ------------------------------------------------------------- value sets
Addr == {"a1", "a2"}
Escrow == "contract"
None == "none"
Tokens == {"tok"}
Hashes == {"h1"}
Verifiers == {"a1"}
Owners == {"a2"}
ProjectIds == 1..(MaxProjects + 1)
MilestoneAmounts == (-1..MaxAmount) \ {0}
InvestAmounts == -1..MaxAmount
GoalValues == {MaxAmount}
DeadlineValues == 1..MaxTime
Accounts == Addr \cup {Escrow}

RECURSIVE SeqsUpTo(_, _)
SeqsUpTo(S, n) ==
    IF n = 0 THEN {<<>>}
    ELSE LET shorter == SeqsUpTo(S, n - 1)
         IN shorter \cup {Append(s, x) : s \in {t \in shorter : Len(t) = n - 1}, x \in S}

AmountLists == SeqsUpTo(MilestoneAmounts, MaxMilestones)
DeadlineLists == SeqsUpTo(DeadlineValues, MaxMilestones)

\* the two-project scope: projects of at most one milestone and one investment
PairInvestAmounts == 0..1
PairAmountLists == SeqsUpTo({MaxAmount}, 1)
PairDeadlineLists == SeqsUpTo(DeadlineValues, 1)

VARIABLES
    variant,         \* which source variant is deployed
    verifier,        \* DataKey::Verifier (None when absent)
    token,           \* DataKey::Token (None when absent)
    counter,         \* DataKey::ProjectCounter (absent reads as 0)
    projects,        \* DataKey::Project(id), a function on the stored ids
    investments,     \* DataKey::ProjectInvestments(id) (absent reads as <<>>)
    investorAmount,  \* DataKey::InvestorAmount(id, investor) (absent reads as 0)
    balances,        \* the token contract's balance of every account
    now,             \* env.ledger().timestamp()
    released,        \* history: the milestones <<id, index>> paid to the owner
    paidOut,         \* history: per project id, total paid out of escrow
    refunded         \* history: the milestones <<id, index>> refunded to investors

vars == <<variant, verifier, token, counter, projects, investments,
          investorAmount, balances, now, released, paidOut, refunded>>

\* ---------------------------------------------------------------- helpers
RECURSIVE SumSeq(_)
SumSeq(s) == IF s = <<>> THEN 0 ELSE Head(s) + SumSeq(Tail(s))

Abs(x) == IF x < 0 THEN -x ELSE x

\* Rust's i128 division truncates toward zero
TruncDiv(a, b) ==
    IF (a < 0) = (b < 0) THEN Abs(a) \div Abs(b) ELSE -(Abs(a) \div Abs(b))

\* the persisted state a call starts from
Host ==
    [verifier |-> verifier, token |-> token, counter |-> counter,
     projects |-> projects, investments |-> investments,
     investorAmount |-> investorAmount, balances |-> balances]

Ok(st, xf) == [ok |-> TRUE, err |-> "", st |-> st, xfers |-> xf]

\* panic!/expect/unwrap: the host rolls the invocation back to the state before it
Panic(pre, err) == [ok |-> FALSE, err |-> err, st |-> pre, xfers |-> <<>>]

\* token::Client::transfer: fails on a negative amount or an insufficient balance
CanTransfer(bal, from, amount) == amount >= 0 /\ bal[from] >= amount

Transfer(bal, from, to, amount) ==
    [a \in DOMAIN bal |->
        IF from = to THEN bal[a]
        ELSE IF a = from THEN bal[a] - amount
        ELSE IF a = to THEN bal[a] + amount
        ELSE bal[a]]

Xfer(from, to, amount) == [from |-> from, to |-> to, amount |-> amount]

NewMilestone(amount, deadline) ==
    [amount |-> amount, deadline |-> deadline, status |-> "Pending",
     evidence_hash |-> None]

\* the milestones are pushed at the front: the list comes out in reverse order
BuildMilestones_Reversed(amounts, deadlines) ==
    [i \in 1..Len(amounts) |->
        NewMilestone(amounts[Len(amounts) + 1 - i], deadlines[Len(amounts) + 1 - i])]

BuildMilestones(amounts, deadlines) ==
    [i \in 1..Len(amounts) |-> NewMilestone(amounts[i], deadlines[i])]

MilestoneTotal(ms) == SumSeq([i \in 1..Len(ms) |-> ms[i].amount])

\* the authorization check has been dropped: anyone may make the call
require_auth_Skipped(caller, address) == TRUE

\* address.require_auth(): the invocation carries the authorization of address
require_auth(caller, address) == caller = address

\* ------------------------------------------------------------ initialize
\* the check for an earlier initialization has been dropped
HasVerifier_Unchecked(st) == FALSE

\* env.storage().instance().has(&DataKey::Verifier)
HasVerifier(st) == st.verifier # None

initialize(st, caller, v, t) ==
    IF HasVerifier(st) THEN Panic(st, "AlreadyInitialized")
    ELSE IF ~require_auth(caller, v) THEN Panic(st, "Unauthorized")
    ELSE Ok([st EXCEPT !.verifier = v, !.token = t, !.counter = 0], <<>>)

\* -------------------------------------------------------- create_project
BudgetCheck(var, amounts, goal_amount) ==
    var = "contracts" /\ SumSeq(amounts) > goal_amount

create_project(var, st, caller, owner, goal_amount, amounts, deadlines) ==
    IF ~require_auth(caller, owner) THEN Panic(st, "Unauthorized")
    ELSE IF Len(amounts) # Len(deadlines) THEN Panic(st, "MalformedMilestones")
    ELSE IF BudgetCheck(var, amounts, goal_amount) THEN Panic(st, "BudgetExceeded")
    ELSE LET id == st.counter + 1
             project == [id |-> id, owner |-> owner, goal_amount |-> goal_amount,
                         raised |-> 0,
                         milestones |-> BuildMilestones(amounts, deadlines),
                         active |-> TRUE]
         IN Ok([st EXCEPT !.projects = (id :> project) @@ st.projects,
                          !.counter = id], <<>>)

\* the id create_project returns: the counter it has just stored
create_project_id(r) == r.st.counter

\* ----------------------------------------------------------------- invest
\* fault: the active check is missing
ProjectNotActive_Unchecked(project) == FALSE

ProjectNotActive(project) == ~project.active

\* the comparison has slipped to <: an investment of zero is accepted
NotPositive_ZeroAccepted(amount) == amount < 0

NotPositive(amount) == amount <= 0

invest(st, caller, project_id, investor, amount, ts) ==
    IF ~require_auth(caller, investor) THEN Panic(st, "Unauthorized")
    ELSE IF project_id \notin DOMAIN st.projects THEN Panic(st, "NotFound")
    ELSE LET project == st.projects[project_id] IN
    IF ProjectNotActive(project) THEN Panic(st, "ProjectInactive")
    ELSE IF NotPositive(amount) THEN Panic(st, "InvalidAmount")
    ELSE IF st.token = None THEN Panic(st, "TokenNotConfigured")
    ELSE IF ~CanTransfer(st.balances, investor, amount) THEN Panic(st, "TransferFailed")
    ELSE Ok([st EXCEPT
               !.balances = Transfer(st.balances, investor, Escrow, amount),
               !.projects[project_id].raised = project.raised + amount,
               !.investorAmount[project_id][investor] = @ + amount,
               !.investments[project_id] =
                   Append(@, [investor |-> investor, amount |-> amount,
                              timestamp |-> ts])],
            <<Xfer(investor, Escrow, amount)>>)

\* -------------------------------------------------------- submit_evidence
NotPending(milestone) == milestone.status # "Pending"

submit_evidence(st, caller, project_id, milestone_index, evidence_hash) ==
    IF project_id \notin DOMAIN st.projects THEN Panic(st, "NotFound")
    ELSE LET project == st.projects[project_id] IN
    IF ~require_auth(caller, project.owner) THEN Panic(st, "Unauthorized")
    ELSE IF milestone_index >= Len(project.milestones) THEN Panic(st, "InvalidIndex")
    ELSE LET milestone == project.milestones[milestone_index + 1] IN
    IF NotPending(milestone) THEN Panic(st, "NotPending")
    ELSE Ok([st EXCEPT !.projects[project_id].milestones[milestone_index + 1] =
                 [milestone EXCEPT !.evidence_hash = evidence_hash,
                                   !.status = "EvidenceSubmitted"]], <<>>)

\* ------------------------------------------------------- verify_milestone
NoEvidence(milestone) == milestone.status # "EvidenceSubmitted"

\* the release of a verified milestone's funds to the project owner
Payout(project, milestone) == Xfer(Escrow, project.owner, milestone.amount)

verify_milestone(st, caller, project_id, milestone_index, approved) ==
    IF st.verifier = None THEN Panic(st, "VerifierNotConfigured")
    ELSE IF ~require_auth(caller, st.verifier) THEN Panic(st, "Unauthorized")
    ELSE IF project_id \notin DOMAIN st.projects THEN Panic(st, "NotFound")
    ELSE LET project == st.projects[project_id] IN
    IF milestone_index >= Len(project.milestones) THEN Panic(st, "InvalidIndex")
    ELSE LET milestone == project.milestones[milestone_index + 1] IN
    IF NoEvidence(milestone) THEN Panic(st, "NotAwaitingVerification")
    ELSE IF approved THEN
        LET pay == Payout(project, milestone) IN
        IF st.token = None THEN Panic(st, "TokenNotConfigured")
        ELSE IF ~CanTransfer(st.balances, pay.from, pay.amount)
             THEN Panic(st, "TransferFailed")
        ELSE Ok([st EXCEPT
                   !.balances = Transfer(st.balances, pay.from, pay.to, pay.amount),
                   !.projects[project_id].milestones[milestone_index + 1].status =
                       "Verified"],
                <<pay>>)
    ELSE Ok([st EXCEPT
               !.projects[project_id].milestones[milestone_index + 1].status =
                   "Rejected"], <<>>)

\* --------------------------------------------------------- trigger_refund
UnverifiedAmount(ms, milestone_index) ==
    SumSeq([k \in 1..(Len(ms) - milestone_index) |->
               IF ms[milestone_index + k].status # "Verified"
               THEN ms[milestone_index + k].amount ELSE 0])

\* the indices of the milestones whose amount unverified_amount counts
CountedMilestones(ms, milestone_index) ==
    {k \in milestone_index..(Len(ms) - 1) : ms[k + 1].status # "Verified"}

Refund(investment, unverified_amount, raised) ==
    TruncDiv(investment.amount * unverified_amount, raised)

\* the division is made before the loop is entered: it fails on raised = 0 even
\* when there is no record to refund
RECURSIVE RefundLoop_DividesFirst(_, _, _, _, _, _)
RefundLoop_DividesFirst(invs, i, unverified_amount, raised, bal, xf) ==
    IF raised = 0 THEN [ok |-> FALSE, err |-> "DivideByZero", bal |-> bal, xfers |-> xf]
    ELSE IF i > Len(invs) THEN [ok |-> TRUE, err |-> "", bal |-> bal, xfers |-> xf]
    ELSE LET refund == Refund(invs[i], unverified_amount, raised) IN
         IF refund > 0
         THEN IF ~CanTransfer(bal, Escrow, refund)
              THEN [ok |-> FALSE, err |-> "TransferFailed", bal |-> bal, xfers |-> xf]
              ELSE RefundLoop_DividesFirst(invs, i + 1, unverified_amount, raised,
                                           Transfer(bal, Escrow, invs[i].investor, refund),
                                           Append(xf, Xfer(Escrow, invs[i].investor, refund)))
         ELSE RefundLoop_DividesFirst(invs, i + 1, unverified_amount, raised, bal, xf)

\* the loop over the investment records; a failed division or transfer panics
RECURSIVE RefundLoop(_, _, _, _, _, _)
RefundLoop(invs, i, unverified_amount, raised, bal, xf) ==
    IF i > Len(invs) THEN [ok |-> TRUE, err |-> "", bal |-> bal, xfers |-> xf]
    ELSE IF raised = 0 THEN [ok |-> FALSE, err |-> "DivideByZero", bal |-> bal, xfers |-> xf]
    ELSE LET refund == Refund(invs[i], unverified_amount, raised) IN
         IF refund > 0
         THEN IF ~CanTransfer(bal, Escrow, refund)
              THEN [ok |-> FALSE, err |-> "TransferFailed", bal |-> bal, xfers |-> xf]
              ELSE RefundLoop(invs, i + 1, unverified_amount, raised,
                              Transfer(bal, Escrow, invs[i].investor, refund),
                              Append(xf, Xfer(Escrow, invs[i].investor, refund)))
         ELSE RefundLoop(invs, i + 1, unverified_amount, raised, bal, xf)

DeadlineNotExpired(ts, milestone) == ts < milestone.deadline

\* fault: the check of the milestone's status is missing
AlreadyVerified_Unchecked(milestone) == FALSE

AlreadyVerified(milestone) == milestone.status = "Verified"

\* fault: a failed transfer is skipped and the refunds made so far are kept
RefundOutcome_BestEffort(st, project_id, loop) ==
    Ok([st EXCEPT !.balances = loop.bal,
                  !.projects[project_id].active = FALSE], loop.xfers)

\* a panic inside the loop aborts the call; otherwise the project is deactivated
RefundOutcome(st, project_id, loop) ==
    IF ~loop.ok THEN Panic(st, loop.err)
    ELSE Ok([st EXCEPT !.balances = loop.bal,
                       !.projects[project_id].active = FALSE], loop.xfers)

trigger_refund(st, project_id, milestone_index, ts) ==
    IF project_id \notin DOMAIN st.projects THEN Panic(st, "NotFound")
    ELSE LET project == st.projects[project_id] IN
    IF milestone_index >= Len(project.milestones) THEN Panic(st, "InvalidIndex")
    ELSE LET milestone == project.milestones[milestone_index + 1] IN
    IF DeadlineNotExpired(ts, milestone) THEN Panic(st, "DeadlineNotReached")
    ELSE IF AlreadyVerified(milestone) THEN Panic(st, "AlreadyVerified")
    ELSE IF st.token = None THEN Panic(st, "TokenNotConfigured")
    ELSE RefundOutcome(st, project_id,
                       RefundLoop(st.investments[project_id], 1,
                                  UnverifiedAmount(project.milestones, milestone_index),
                                  project.raised, st.balances, <<>>))

\* ---------------------------------------------------------------- getters
get_project(st, project_id) ==
    IF project_id \in DOMAIN st.projects
    THEN [ok |-> TRUE, err |-> "", value |-> st.projects[project_id]]
    ELSE [ok |-> FALSE, err |-> "NotFound", value |-> None]

get_investor_amount(st, project_id, investor) == st.investorAmount[project_id][investor]

get_project_count(st) == st.counter

\* ----------------------------------------------------------------- actions
XferTotal(xf) == SumSeq([i \in 1..Len(xf) |-> xf[i].amount])

\* the host commits the state a call returns; a panicking call leaves no trace
Commit(r) ==
    /\ verifier' = r.st.verifier
    /\ token' = r.st.token
    /\ counter' = r.st.counter
    /\ projects' = r.st.projects
    /\ investments' = r.st.investments
    /\ investorAmount' = r.st.investorAmount
    /\ balances' = r.st.balances

InitState(var) ==
    /\ variant = var
    /\ verifier = None
    /\ token = None
    /\ counter = 0
    /\ projects = <<>>
    /\ investments = [p \in ProjectIds |-> <<>>]
    /\ investorAmount = [p \in ProjectIds |-> [a \in Addr |-> 0]]
    /\ balances = [a \in Accounts |-> IF a = Escrow THEN 0 ELSE InitBalance]
    /\ now = 0
    /\ released = {}
    /\ paidOut = [p \in ProjectIds |-> 0]
    /\ refunded = {}

Init == InitState("contracts")

InitRoot == InitState("root")

Initialize ==
    \E caller \in Addr, v \in Verifiers, t \in Tokens :
        /\ Commit(initialize(Host, caller, v, t))
        /\ UNCHANGED <<variant, now, released, paidOut, refunded>>

CreateProject(maxProjects, amountLists, deadlineLists) ==
    /\ counter < maxProjects
    /\ \E caller \in Addr, owner \in Owners, goal_amount \in GoalValues,
          amounts \in amountLists, deadlines \in deadlineLists :
        LET r == create_project(variant, Host, caller, owner, goal_amount,
                                amounts, deadlines)
            id == counter + 1
        IN /\ Commit(r)
           /\ released' = IF r.ok THEN {m \in released : m[1] # id} ELSE released
           /\ paidOut' = IF r.ok THEN [paidOut EXCEPT ![id] = 0] ELSE paidOut
           /\ refunded' = IF r.ok THEN {m \in refunded : m[1] # id} ELSE refunded
           /\ UNCHANGED <<variant, now>>

Invest(ids, investAmounts, maxInvestments) ==
    \E caller \in Addr, project_id \in ids, investor \in Addr,
       amount \in investAmounts :
        LET r == invest(Host, caller, project_id, investor, amount, now)
        IN /\ r.ok => Len(investments[project_id]) < maxInvestments
           /\ Commit(r)
           /\ UNCHANGED <<variant, now, released, paidOut, refunded>>

SubmitEvidence(ids) ==
    \E caller \in Addr, project_id \in ids, milestone_index \in 0..MaxMilestones,
       evidence_hash \in Hashes :
        /\ Commit(submit_evidence(Host, caller, project_id, milestone_index,
                                  evidence_hash))
        /\ UNCHANGED <<variant, now, released, paidOut, refunded>>

VerifyMilestone(ids) ==
    \E caller \in Addr, project_id \in ids, milestone_index \in 0..MaxMilestones,
       approved \in BOOLEAN :
        LET r == verify_milestone(Host, caller, project_id, milestone_index, approved)
        IN /\ Commit(r)
           /\ released' = IF r.ok /\ r.xfers # <<>>
                          THEN released \cup {<<project_id, milestone_index>>}
                          ELSE released
           /\ paidOut' = IF r.ok
                         THEN [paidOut EXCEPT ![project_id] = @ + XferTotal(r.xfers)]
                         ELSE paidOut
           /\ UNCHANGED <<variant, now, refunded>>

TriggerRefund(ids) ==
    \E project_id \in ids, milestone_index \in 0..MaxMilestones :
        LET r == trigger_refund(Host, project_id, milestone_index, now)
        IN /\ Commit(r)
           /\ paidOut' = IF r.ok
                         THEN [paidOut EXCEPT ![project_id] = @ + XferTotal(r.xfers)]
                         ELSE paidOut
           /\ refunded' = IF r.ok /\ r.xfers # <<>>
                          THEN refunded \cup
                               {<<project_id, k>> :
                                   k \in CountedMilestones(projects[project_id].milestones,
                                                           milestone_index)}
                          ELSE refunded
           /\ UNCHANGED <<variant, now, released>>

\* the ledger closes and its timestamp advances
Tick ==
    /\ now < MaxTime
    /\ now' = now + 1
    /\ UNCHANGED <<variant, verifier, token, counter, projects, investments,
                   investorAmount, balances, released, paidOut, refunded>>

\* the contracts/ variant, one project of up to MaxMilestones milestones
Next ==
    \/ Initialize
    \/ CreateProject(MaxProjects, AmountLists, DeadlineLists)
    \/ Invest(1..MaxProjects, InvestAmounts, MaxInvestments)
    \/ SubmitEvidence(1..MaxProjects)
    \/ VerifyMilestone(1..MaxProjects)
    \/ TriggerRefund(1..MaxProjects)
    \/ Tick

Spec == Init /\ [][Next]_vars

\* the contracts/ variant, two projects sharing the escrow account
NextPair ==
    \/ Initialize
    \/ CreateProject(MaxProjects + 1, PairAmountLists, PairDeadlineLists)
    \/ Invest(ProjectIds, PairInvestAmounts, MaxInvestments - 1)
    \/ SubmitEvidence(ProjectIds)
    \/ VerifyMilestone(ProjectIds)
    \/ TriggerRefund(ProjectIds)
    \/ Tick

SpecPair == Init /\ [][NextPair]_vars

\* the root variant: the same entry points without trigger_refund
NextRoot ==
    \/ Initialize
    \/ CreateProject(MaxProjects, AmountLists, DeadlineLists)
    \/ Invest(1..MaxProjects, InvestAmounts, MaxInvestments)
    \/ SubmitEvidence(1..MaxProjects)
    \/ VerifyMilestone(1..MaxProjects)
    \/ Tick

SpecRoot == InitRoot /\ [][NextRoot]_vars

\* ================================================================ claims
Indices == 0..MaxMilestones

Exists(project_id, milestone_index) ==
    /\ project_id \in DOMAIN projects
    /\ milestone_index < Len(projects[project_id].milestones)

MilestoneAt(project_id, milestone_index) ==
    projects[project_id].milestones[milestone_index + 1]

Untouched(r) == ~r.ok /\ r.st = Host /\ r.xfers = <<>>

\* ------------------------------------------------------------------- C1
StatusOrder(old, new) ==
    \/ old = new
    \/ old = "Pending" /\ new = "EvidenceSubmitted"
    \/ old = "EvidenceSubmitted" /\ new \in {"Verified", "Rejected"}

C1_Guards ==
    \A caller \in Addr, p \in ProjectIds, i \in Indices :
        /\ \A h \in Hashes :
              submit_evidence(Host, caller, p, i, h).ok
                  => Exists(p, i) /\ MilestoneAt(p, i).status = "Pending"
        /\ \A approved \in BOOLEAN :
              verify_milestone(Host, caller, p, i, approved).ok
                  => Exists(p, i) /\ MilestoneAt(p, i).status = "EvidenceSubmitted"

C1_Step ==
    \A p \in DOMAIN projects :
        /\ p \in DOMAIN projects'
        /\ \A k \in 1..Len(projects[p].milestones) :
              k <= Len(projects'[p].milestones) =>
                  StatusOrder(projects[p].milestones[k].status,
                              projects'[p].milestones[k].status)

\* C1: a milestone's status only moves along Pending -> EvidenceSubmitted ->
\* (Verified | Rejected): submit_evidence succeeds only from Pending,
\* verify_milestone only from EvidenceSubmitted, and no step of any operation
\* moves the status of a stored project's milestone backward, skips
\* EvidenceSubmitted or leaves Verified or Rejected.
C1_StatusLifecycle == []C1_Guards /\ [][C1_Step]_vars

\* ------------------------------------------------------------------- C2
NoOwnerXfer(r, p) ==
    r.ok => \A k \in 1..Len(r.xfers) :
                ~(r.xfers[k].from = Escrow /\ r.xfers[k].to = projects[p].owner)

PayoutOnce(r, p, i) ==
    r.ok => /\ r.xfers = <<Xfer(Escrow, projects[p].owner, MilestoneAt(p, i).amount)>>
            /\ <<p, i>> \notin released

\* C2: only verify_milestone(approved=true) ever transfers from escrow
\* to the project's owner, exactly milestone.amount, once per milestone; invest,
\* submit_evidence, verify_milestone(approved=false) and trigger_refund never do.
C2_OwnerPaidOnlyByVerify ==
    \A p \in DOMAIN projects, caller \in Addr, i \in Indices :
        /\ \A investor \in Addr, amount \in InvestAmounts :
              NoOwnerXfer(invest(Host, caller, p, investor, amount, now), p)
        /\ \A h \in Hashes : NoOwnerXfer(submit_evidence(Host, caller, p, i, h), p)
        /\ NoOwnerXfer(verify_milestone(Host, caller, p, i, FALSE), p)
        /\ PayoutOnce(verify_milestone(Host, caller, p, i, TRUE), p, i)
        /\ NoOwnerXfer(trigger_refund(Host, p, i, now), p)

\* ------------------------------------------------------------------- C3
\* C3: conservation of funds per project: what was paid out of escrow for a
\* project (milestone payouts plus refunds) never exceeds what was paid in for it.
C3_Conservation ==
    \A p \in DOMAIN projects : paidOut[p] <= projects[p].raised

\* ------------------------------------------------------------------- C4
\* C4: in every successful trigger_refund call the refunds dispatched sum to at
\* most the unverified_amount of that call.
C4_RefundSumBounded ==
    \A p \in DOMAIN projects, i \in Indices :
        LET r == trigger_refund(Host, p, i, now)
        IN r.ok => XferTotal(r.xfers) <= UnverifiedAmount(projects[p].milestones, i)

\* ------------------------------------------------------------------- C5
\* C5: trigger_refund never succeeds before the milestone's deadline
\* (DeadlineNotReached) nor on a Verified milestone (AlreadyVerified, once the
\* deadline check has passed); the failed call transfers nothing and changes
\* nothing.
C5_RefundGuards ==
    \A p \in ProjectIds, i \in Indices :
        Exists(p, i) =>
            LET r == trigger_refund(Host, p, i, now)
                m == MilestoneAt(p, i)
            IN /\ now < m.deadline => Untouched(r) /\ r.err = "DeadlineNotReached"
               /\ m.status = "Verified" =>
                     /\ Untouched(r)
                     /\ now >= m.deadline => r.err = "AlreadyVerified"

C5_Witness ==
    \E p \in ProjectIds, i \in Indices :
        /\ Exists(p, i)
        /\ token # None
        /\ MilestoneAt(p, i).status = "Verified"
        /\ now >= MilestoneAt(p, i).deadline
        /\ trigger_refund(Host, p, i, now).err = "AlreadyVerified"

\* ------------------------------------------------------------------- C6
\* C6: once a project is inactive, no trigger_refund call on it dispatches a
\* refund again (the re-entry guard).
C6_ReentryGuard ==
    \A p \in DOMAIN projects, i \in Indices :
        ~projects[p].active =>
            LET r == trigger_refund(Host, p, i, now) IN ~(r.ok /\ r.xfers # <<>>)

\* ------------------------------------------------------------------- C7
\* C7: on an initialized contract, whenever a milestone is past its deadline and
\* not Verified, trigger_refund on it succeeds.
C7_SweepAlwaysSucceeds ==
    \A p \in ProjectIds, i \in Indices :
        (/\ Exists(p, i)
         /\ token # None
         /\ now >= MilestoneAt(p, i).deadline
         /\ MilestoneAt(p, i).status # "Verified")
            => trigger_refund(Host, p, i, now).ok

\* ------------------------------------------------------------------- C8
\* C8: every stored project's milestone amounts sum to at most its goal_amount
\* (in both source variants).
C8_BudgetInvariant ==
    \A p \in DOMAIN projects :
        MilestoneTotal(projects[p].milestones) <= projects[p].goal_amount

\* ------------------------------------------------------------------- C9
RECURSIVE ApplyXfers(_, _)
ApplyXfers(bal, xf) ==
    IF xf = <<>> THEN bal
    ELSE ApplyXfers(Transfer(bal, Head(xf).from, Head(xf).to, Head(xf).amount), Tail(xf))

\* a call either fails and leaves everything as it was, or its balances moved by
\* exactly the transfers it made
Atomic(r) ==
    /\ ~r.ok => r.st = Host /\ r.xfers = <<>>
    /\ r.ok => r.st.balances = ApplyXfers(balances, r.xfers)

ExpectedRefunds(p, i) ==
    LET invs == investments[p]
        all == [n \in 1..Len(invs) |->
                   Xfer(Escrow, invs[n].investor,
                        Refund(invs[n], UnverifiedAmount(projects[p].milestones, i),
                               projects[p].raised))]
    IN SelectSeq(all, LAMBDA x : x.amount > 0)

InvestAtomic(r, p, investor, amount) ==
    LET moved == r.xfers = <<Xfer(investor, Escrow, amount)>>
        booked == /\ r.st.projects[p].raised = projects[p].raised + amount
                  /\ r.st.investorAmount[p][investor] = investorAmount[p][investor] + amount
                  /\ r.st.investments[p] =
                         Append(investments[p], [investor |-> investor, amount |-> amount,
                                                 timestamp |-> now])
    IN /\ Atomic(r)
       /\ r.ok <=> moved
       /\ r.ok <=> booked

VerifyAtomic(r, p, i) ==
    LET paid == r.xfers = <<Xfer(Escrow, projects[p].owner, MilestoneAt(p, i).amount)>>
        becameVerified ==
            /\ MilestoneAt(p, i).status # "Verified"
            /\ r.st.projects[p].milestones[i + 1].status = "Verified"
    IN /\ Atomic(r)
       /\ becameVerified <=> paid

RefundAtomic(r, p, i) ==
    /\ Atomic(r)
    /\ r.ok => r.xfers = ExpectedRefunds(p, i) /\ ~r.st.projects[p].active
    /\ ~r.ok => r.st.projects[p].active = projects[p].active

\* C9: every public operation is all-or-nothing.  A failed call leaves the
\* persisted state and the balances as they were; a successful one moved the
\* balances by exactly its transfers.  verify_milestone(approved=true) makes the
\* milestone Verified iff the payout of milestone.amount to the owner took place;
\* invest books raised, the investor total and the Investment record iff the
\* transfer from the investor to escrow took place; trigger_refund deactivates the
\* project iff every refund was dispatched.
C9_AllOrNothing ==
    \A caller \in Addr :
        /\ \A v \in Verifiers, t \in Tokens : Atomic(initialize(Host, caller, v, t))
        /\ \A owner \in Owners, goal_amount \in GoalValues, amounts \in AmountLists,
              deadlines \in DeadlineLists :
              Atomic(create_project(variant, Host, caller, owner, goal_amount,
                                    amounts, deadlines))
        /\ \A p \in ProjectIds, i \in Indices :
              /\ \A h \in Hashes : Atomic(submit_evidence(Host, caller, p, i, h))
              /\ Atomic(verify_milestone(Host, caller, p, i, FALSE))
              /\ Atomic(verify_milestone(Host, caller, p, i, TRUE))
              /\ Atomic(trigger_refund(Host, p, i, now))
              /\ \A investor \in Addr, amount \in InvestAmounts :
                    Atomic(invest(Host, caller, p, investor, amount, now))
              /\ Exists(p, i) =>
                    /\ VerifyAtomic(verify_milestone(Host, caller, p, i, TRUE), p, i)
                    /\ RefundAtomic(trigger_refund(Host, p, i, now), p, i)
                    /\ \A investor \in Addr, amount \in InvestAmounts :
                          InvestAtomic(invest(Host, caller, p, investor, amount, now),
                                       p, investor, amount)

\* a refund that pays the first record and cannot pay the second: the call aborts
C9_Witness ==
    \E p \in ProjectIds, i \in Indices :
        /\ Exists(p, i)
        /\ Len(investments[p]) = 2
        /\ projects[p].raised > 0
        /\ LET due == ExpectedRefunds(p, i)
           IN /\ Len(due) = 2
              /\ due[1].amount <= balances[Escrow]
              /\ due[1].amount + due[2].amount > balances[Escrow]
        /\ trigger_refund(Host, p, i, now).err = "TransferFailed"

\* ------------------------------------------------------------------ C10
\* C10: invest on a stored project whose active flag is false fails for every
\* amount and every investor and changes nothing; the failure is ProjectInactive
\* whenever the investor authorized the call.
C10_InactiveRejectsInvest ==
    \A p \in DOMAIN projects :
        ~projects[p].active =>
            \A caller \in Addr, investor \in Addr, amount \in InvestAmounts :
                LET r == invest(Host, caller, p, investor, amount, now)
                IN /\ Untouched(r)
                   /\ caller = investor => r.err = "ProjectInactive"

\* an inactive project, an initialized token and an investor who could pay
C10_Witness ==
    \E p \in DOMAIN projects, investor \in Addr :
        /\ ~projects[p].active
        /\ token # None
        /\ balances[investor] >= 1
        /\ invest(Host, investor, p, investor, 1, now).err = "ProjectInactive"

\* ------------------------------------------------------------------ C11
\* C11: authorization gates the state machine.  submit_evidence (Pending ->
\* EvidenceSubmitted) succeeds only when the call is authorized by the project's
\* owner, verify_milestone (EvidenceSubmitted -> Verified | Rejected) only when
\* it is authorized by the stored verifier, and the verifier is stored only by
\* an initialize call that verifier authorized; a create_project or invest call
\* not authorized by the named owner or investor changes nothing.
\* trigger_refund takes no authorization: it is called without a caller.
C11_AuthorizationGates ==
    \A caller \in Addr :
        /\ \A p \in ProjectIds, i \in Indices :
              /\ \A h \in Hashes :
                    submit_evidence(Host, caller, p, i, h).ok
                        => caller = projects[p].owner
              /\ \A approved \in BOOLEAN :
                    verify_milestone(Host, caller, p, i, approved).ok
                        => caller = verifier /\ verifier # None
        /\ \A v \in Addr, t \in Tokens :
              initialize(Host, caller, v, t).ok => caller = v
        /\ \A owner \in Addr, goal_amount \in GoalValues, amounts \in AmountLists,
              deadlines \in DeadlineLists :
              caller # owner =>
                  Untouched(create_project(variant, Host, caller, owner, goal_amount,
                                           amounts, deadlines))
        /\ \A p \in ProjectIds, investor \in Addr, amount \in InvestAmounts :
              caller # investor =>
                  Untouched(invest(Host, caller, p, investor, amount, now))

\* evidence is awaiting verification and an investor could pay: anyone other
\* than the owner, the verifier or the investor is turned away
C11_Witness ==
    \E p \in DOMAIN projects, i \in Indices :
        /\ Exists(p, i)
        /\ MilestoneAt(p, i).status = "EvidenceSubmitted"
        /\ verifier # None
        /\ projects[p].active
        /\ \E caller \in Addr :
              /\ caller # verifier
              /\ verify_milestone(Host, caller, p, i, TRUE).err = "Unauthorized"
              /\ verify_milestone(Host, verifier, p, i, FALSE).ok
        /\ \E caller, investor \in Addr :
              /\ caller # investor
              /\ balances[investor] >= 1
              /\ invest(Host, investor, p, investor, 1, now).ok
              /\ invest(Host, caller, p, investor, 1, now).err = "Unauthorized"

\* ------------------------------------------------------------------ C12
C12_Ids ==
    /\ get_project_count(Host) = Cardinality(DOMAIN projects)
    /\ DOMAIN projects = 1..counter
    /\ \A p \in DOMAIN projects : projects[p].id = p

C12_Step ==
    /\ counter' >= counter
    /\ counter' # counter => counter' = counter + 1 /\ counter' \notin DOMAIN projects
    /\ \A p \in DOMAIN projects : p \in DOMAIN projects'

\* C12: project ids are unique and sequential from 1: the stored ids are exactly
\* 1..counter, get_project_count equals the number of stored projects, the
\* counter never decreases, and a create_project step issues counter + 1, an id
\* under which no project is stored yet.
C12_UniqueSequentialIds == []C12_Ids /\ [][C12_Step]_vars

\* ------------------------------------------------------------------ C13
C13_Call ==
    \A caller \in Addr, v \in Addr, t \in Tokens :
        LET r == initialize(Host, caller, v, t)
        IN /\ verifier # None => Untouched(r) /\ r.err = "AlreadyInitialized"
           /\ r.ok => /\ verifier = None
                      /\ r.st.verifier = v
                      /\ r.st.token = t
                      /\ get_project_count(r.st) = 0

C13_Step == verifier # None => verifier' = verifier /\ token' = token

\* C13: initialize succeeds at most once.  A successful call finds no verifier
\* stored and persists the verifier, the token and a project counter of zero;
\* once a verifier is stored every initialize call fails with AlreadyInitialized
\* and changes nothing, and no step changes the stored verifier or token.
C13_InitializeOnce == []C13_Call /\ [][C13_Step]_vars

\* initialized, a project created since: initialize is refused, the counter stays
C13_Witness ==
    /\ verifier # None
    /\ token # None
    /\ counter > 0
    /\ \E caller \in Addr, t \in Tokens :
          LET r == initialize(Host, caller, caller, t)
          IN r.err = "AlreadyInitialized" /\ r.st.counter = counter

\* ------------------------------------------------------------------ C14
C14_Calls ==
    \A caller \in Addr, p \in DOMAIN projects :
        LET same(r) == r.st.projects[p].active = projects[p].active
        IN /\ \A owner \in Owners, goal_amount \in GoalValues, amounts \in AmountLists,
                 deadlines \in DeadlineLists :
                 same(create_project(variant, Host, caller, owner, goal_amount,
                                     amounts, deadlines))
           /\ \A investor \in Addr, amount \in InvestAmounts :
                 same(invest(Host, caller, p, investor, amount, now))
           /\ \A i \in Indices :
                 /\ \A h \in Hashes : same(submit_evidence(Host, caller, p, i, h))
                 /\ \A approved \in BOOLEAN :
                       same(verify_milestone(Host, caller, p, i, approved))
                 /\ ~projects[p].active =>
                       ~trigger_refund(Host, p, i, now).st.projects[p].active

C14_Step ==
    /\ \A p \in DOMAIN projects' \ DOMAIN projects : projects'[p].active
    /\ \A p \in DOMAIN projects :
           ~projects[p].active => p \in DOMAIN projects' /\ ~projects'[p].active

\* C14: a project's active flag is true from creation and only ever changes
\* from true to false, by trigger_refund: create_project, invest, submit_evidence
\* and verify_milestone leave the flag of every stored project as it is, and no
\* step sets the flag of a stored project back to true.
C14_ActiveOnlyFalls == []C14_Calls /\ [][C14_Step]_vars

\* ------------------------------------------------------------------ C15
InvestMoved(r, investor, amount) ==
    /\ r.xfers = <<Xfer(investor, Escrow, amount)>>
    /\ r.st.balances[investor] = balances[investor] - amount
    /\ r.st.balances[Escrow] = balances[Escrow] + amount
    /\ \A a \in Accounts \ {investor, Escrow} : r.st.balances[a] = balances[a]

InvestBooked(r, p, investor, amount) ==
    /\ r.st.projects[p].raised = projects[p].raised + amount
    /\ r.st.investorAmount[p][investor] = investorAmount[p][investor] + amount
    /\ Len(r.st.investments[p]) = Len(investments[p]) + 1
    /\ r.st.investments[p][Len(investments[p]) + 1] =
           [investor |-> investor, amount |-> amount, timestamp |-> now]

InvestFrame(r, p, investor) ==
    /\ \A k \in 1..Len(investments[p]) : r.st.investments[p][k] = investments[p][k]
    /\ \A a \in Addr \ {investor} : r.st.investorAmount[p][a] = investorAmount[p][a]
    /\ r.st.projects[p].id = projects[p].id
    /\ r.st.projects[p].milestones = projects[p].milestones
    /\ r.st.projects[p].owner = projects[p].owner
    /\ r.st.projects[p].goal_amount = projects[p].goal_amount
    /\ r.st.projects[p].active = projects[p].active
    /\ DOMAIN r.st.projects = DOMAIN projects
    /\ \A q \in DOMAIN projects \ {p} : r.st.projects[q] = projects[q]
    /\ \A q \in ProjectIds \ {p} :
           /\ r.st.investments[q] = investments[q]
           /\ r.st.investorAmount[q] = investorAmount[q]
    /\ r.st.verifier = verifier /\ r.st.token = token /\ r.st.counter = counter

\* C15: a successful invest is on an active project with amount > 0; it moves
\* exactly amount from the investor to escrow, adds amount to the project's
\* raised and to the (project, investor) total, and appends one Investment record
\* (investor, amount, ledger timestamp) at the end of the project's list; earlier
\* records, the project's milestones, owner, goal and active flag and every
\* other project's data stay as they were.  On an active project an authorized
\* invest with amount <= 0 fails with InvalidAmount and changes nothing.
C15_InvestEffect ==
    \A p \in DOMAIN projects, investor \in Addr, amount \in InvestAmounts :
        LET r == invest(Host, investor, p, investor, amount, now)
        IN /\ (projects[p].active /\ amount <= 0)
                 => Untouched(r) /\ r.err = "InvalidAmount"
           /\ r.ok => /\ projects[p].active /\ amount > 0
                      /\ InvestMoved(r, investor, amount)
                      /\ InvestBooked(r, p, investor, amount)
                      /\ InvestFrame(r, p, investor)

\* two projects with a record each, and a further investment that would succeed
C15_Witness ==
    \E p, q \in DOMAIN projects, investor \in Addr :
        /\ p # q
        /\ Len(investments[p]) = 1 /\ projects[p].raised = 1
        /\ Len(investments[q]) = 1
        /\ invest(Host, investor, p, investor, 1, now).ok
        /\ invest(Host, investor, p, investor, 0, now).err = "InvalidAmount"

\* ------------------------------------------------------------------ C16
MatchesInputs(project, id, owner, goal_amount, amounts, deadlines) ==
    /\ project.id = id
    /\ project.owner = owner
    /\ project.goal_amount = goal_amount
    /\ project.raised = 0
    /\ project.active = TRUE
    /\ Len(project.milestones) = Len(amounts)
    /\ Len(project.milestones) = Len(deadlines)
    /\ \A k \in 1..Len(amounts) :
           /\ project.milestones[k].amount = amounts[k]
           /\ project.milestones[k].deadline = deadlines[k]
           /\ project.milestones[k].status = "Pending"
           /\ project.milestones[k].evidence_hash = None

\* C16: get_project(id) right after a successful create_project that returned id
\* yields that id, owner and goal_amount, raised = 0, active = true and the
\* milestones in input order, milestone i with amounts[i], deadlines[i], status
\* Pending and no evidence hash; get_project of an id under which nothing is
\* stored fails with NotFound.
C16_CreateGetRoundTrip ==
    /\ \A owner \in Addr, goal_amount \in GoalValues, amounts \in AmountLists,
          deadlines \in DeadlineLists :
          LET r == create_project(variant, Host, owner, owner, goal_amount,
                                  amounts, deadlines)
              got == get_project(r.st, create_project_id(r))
          IN r.ok => /\ got.ok
                     /\ MatchesInputs(got.value, create_project_id(r), owner,
                                       goal_amount, amounts, deadlines)
    /\ \A id \in 0..(MaxProjects + 1) :
          id \notin DOMAIN projects =>
              LET got == get_project(Host, id)
              IN ~got.ok /\ got.err = "NotFound"

\* a project was created with two different milestones and reads back as stored
C16_Witness ==
    \E p \in DOMAIN projects :
        /\ get_project(Host, p).ok
        /\ get_project(Host, p).value = projects[p]
        /\ MatchesInputs(projects[p], p, projects[p].owner, MaxAmount, <<1, -1>>, <<1, 1>>)
        /\ get_project(Host, p + 1).err = "NotFound"

\* ------------------------------------------------------------------ C17
\* C17: every stored project has goal_amount > 0 and every one of its milestones
\* has amount > 0.
C17_PositiveAmounts ==
    \A p \in DOMAIN projects :
        /\ projects[p].goal_amount > 0
        /\ \A k \in 1..Len(projects[p].milestones) :
               projects[p].milestones[k].amount > 0

\* ------------------------------------------------------------------ C18
\* the sum of the amounts of the milestones at index >= i that are not Verified
UnverifiedFrom(ms, i) ==
    SumSeq([k \in 1..Len(ms) |->
               IF k - 1 >= i /\ ms[k].status # "Verified" THEN ms[k].amount ELSE 0])

\* per record, in list order, floor(amount * unverified_amount / raised), the
\* records whose refund is zero skipped
FloorRefunds(p, i) ==
    LET invs == investments[p]
        all == [n \in 1..Len(invs) |->
                   Xfer(Escrow, invs[n].investor,
                        (invs[n].amount * UnverifiedFrom(projects[p].milestones, i))
                            \div projects[p].raised)]
    IN SelectSeq(all, LAMBDA x : x.amount # 0)

\* C18: a successful trigger_refund(project_id, milestone_index) transfers, for
\* each Investment record in list order, floor(record.amount * unverified_amount
\* / raised) from escrow to the record's investor, skipping the records whose
\* refund is zero, where unverified_amount is the sum of the amounts of the
\* milestones at index >= milestone_index that are not Verified.
C18_RefundComputation ==
    \A p \in DOMAIN projects, i \in Indices :
        LET r == trigger_refund(Host, p, i, now)
        IN r.ok => r.xfers = FloorRefunds(p, i)

\* ------------------------------------------------------------------ C19
\* a milestone past its deadline and not Verified, of a project that raised nothing
ZeroRaisedStalled(p, i) ==
    /\ Exists(p, i)
    /\ projects[p].raised = 0
    /\ now >= MilestoneAt(p, i).deadline
    /\ MilestoneAt(p, i).status # "Verified"

\* C19: trigger_refund on a project with raised = 0, for a milestone past its
\* deadline and not Verified, aborts and leaves the project active.
C19_ZeroRaisedAborts ==
    \A p \in ProjectIds, i \in Indices :
        ZeroRaisedStalled(p, i) =>
            LET r == trigger_refund(Host, p, i, now)
            IN ~r.ok /\ r.st.projects[p].active = projects[p].active

\* C19 (amended): on an initialized contract, trigger_refund on a project with
\* raised = 0, for a milestone past its deadline and not Verified, completes when
\* the project has no Investment record: the loop makes no division, nothing is
\* transferred and the project is deactivated.  Only when Investment records are
\* stored under the id while raised is 0 does the division by zero abort the
\* call, which then changes nothing.
C19_ZeroRaisedRefund ==
    \A p \in ProjectIds, i \in Indices :
        (ZeroRaisedStalled(p, i) /\ token # None) =>
            LET r == trigger_refund(Host, p, i, now)
            IN IF investments[p] = <<>>
               THEN /\ r.ok
                    /\ r.xfers = <<>>
                    /\ r.st.balances = balances
                    /\ ~r.st.projects[p].active
               ELSE Untouched(r) /\ r.err = "DivideByZero"

\* a project that raised nothing was swept: it is inactive and nothing was paid
C19_Witness ==
    \E p \in DOMAIN projects :
        /\ ~projects[p].active
        /\ projects[p].raised = 0
        /\ investments[p] = <<>>
        /\ projects[p].milestones # <<>>
        /\ paidOut[p] = 0
        /\ token # None

\* ------------------------------------------------------------------ C20
RecordTotal(p) ==
    SumSeq([n \in 1..Len(investments[p]) |-> investments[p][n].amount])

RecordTotalOf(p, investor) ==
    SumSeq([n \in 1..Len(investments[p]) |->
               IF investments[p][n].investor = investor
               THEN investments[p][n].amount ELSE 0])

RECURSIVE SumOver(_, _)
SumOver(f, S) ==
    IF S = {} THEN 0
    ELSE LET x == CHOOSE y \in S : TRUE IN f[x] + SumOver(f, S \ {x})

C20_Books ==
    \A p \in DOMAIN projects :
        /\ projects[p].raised >= 0
        /\ projects[p].raised = RecordTotal(p)
        /\ projects[p].raised = SumOver(investorAmount[p], Addr)
        /\ \A investor \in Addr :
               get_investor_amount(Host, p, investor) = RecordTotalOf(p, investor)

C20_Step ==
    \A p \in DOMAIN projects :
        \/ projects'[p].raised >= projects[p].raised
        \/ projects[p].active /\ ~projects'[p].active

\* C20: for every stored project raised is non-negative and equals the sum of
\* the amounts of its Investment records and the sum of its per-investor
\* totals; get_investor_amount equals the sum of that investor's records; and
\* raised decreases in no step other than a refund.
C20_RaisedMatchesRecords == []C20_Books /\ [][C20_Step]_vars

\* ------------------------------------------------------------------ C21
\* C21: in every successful trigger_refund call the refund computed for each
\* Investment record is at most the record's amount: no investor is refunded
\* more than they put in.
C21_RefundAtMostInvested ==
    \A p \in DOMAIN projects, i \in Indices :
        LET r == trigger_refund(Host, p, i, now)
        IN r.ok =>
              \A n \in 1..Len(investments[p]) :
                  Refund(investments[p][n],
                         UnverifiedAmount(projects[p].milestones, i),
                         projects[p].raised) <= investments[p][n].amount

\* ------------------------------------------------------------------ C22
\* C22: a milestone's funds are settled at most one way: no milestone that a
\* successful trigger_refund counted in unverified_amount and refunded to the
\* investors is also paid to the owner, before or after.
C22_SettledOneWay == released \cap refunded = {}

====
